---- MODULE Spec2Model ----
(***************************************************************************)
(* Model of scripts/dev-server.py: a debounced file watcher (ReloadHandler)*)
(* driving a supervisor (DevServer) of one child HTTP server process.      *)
(*                                                                         *)
(* Time is discrete.  One tick is 0.5 s, the length of the pause in        *)
(* restart_server, so debounce_delay (1 s) is 2 ticks and the stop timeout *)
(* (5 s) is 10 ticks.  Statements take no time; time passes only while     *)
(* every thread is blocked (sleep, bounded wait, empty event queue, join). *)
(***************************************************************************)
EXTENDS Integers, Sequences, FiniteSets

VARIABLES now,              \* time.time(), in ticks
          installed,        \* signal_handler installed for SIGINT (__main__)
          pc,               \* position of each thread
          stack,            \* return positions of each thread
          deadline,         \* end of the current sleep / bounded wait
          server_process,   \* DevServer.server_process (None or a child)
          procs,            \* state of every child process ever spawned
          observer_stopped, \* observer.stop() has been called
          queue,            \* the observer's event queue
          last_restart,     \* ReloadHandler.last_restart
          restarts,         \* number of calls of restart_callback
          trigOcc,          \* when the last accepted modification occurred
          restart_pre,      \* server_process at entry of the running restart
          handled,          \* the event on_modified last ran for, at this instant
          last_call,        \* the method of DevServer called last
          stopped_at        \* when stop_server returned in the running restart

vars == <<now, installed, pc, stack, deadline, server_process, procs,
          observer_stopped, queue, last_restart, restarts, trigOcc,
          restart_pre, handled, last_call, stopped_at>>

----------------------------------------------------------------------------
(* Bounds of the model *)

MaxTime == 16
BootTime == 3
MaxQueue == 1
MaxPid == 3

----------------------------------------------------------------------------
(* Constants of the program, in ticks of 0.5 s *)

debounce_delay == 2
StopTimeout == 10
RestartPause == 1

None == 0
NoCall == -1
NoEvent == [src_path |-> <<>>, is_directory |-> FALSE, event_type |-> "none"]

MAIN == "main"
WATCHER == "watcher"
Threads == {MAIN, WATCHER}

Pids == 1..MaxPid

----------------------------------------------------------------------------
(* pathlib.Path(src_path).suffix.lower(), on paths as tuples of characters *)

RECURSIVE LastIndexOf(_, _, _)
LastIndexOf(s, c, i) ==
    IF i = 0 THEN 0
    ELSE IF s[i] = c THEN i
    ELSE LastIndexOf(s, c, i - 1)

PathName(p) ==
    LET i == LastIndexOf(p, "/", Len(p))
    IN  SubSeq(p, i + 1, Len(p))

PathSuffix(p) ==
    LET name == PathName(p)
        i == LastIndexOf(name, ".", Len(name))
    IN  IF 1 < i /\ i < Len(name) THEN SubSeq(name, i, Len(name)) ELSE <<>>

LowerChar(c) ==
    CASE c = "A" -> "a"
      [] c = "J" -> "j"
      [] c = "S" -> "s"
      [] c = "H" -> "h"
      [] c = "T" -> "t"
      [] c = "M" -> "m"
      [] c = "L" -> "l"
      [] c = "P" -> "p"
      [] c = "N" -> "n"
      [] c = "G" -> "g"
      [] OTHER -> c

Lower(s) == [i \in 1..Len(s) |-> LowerChar(s[i])]

relevant_extensions ==
    { <<".", "h", "t", "m", "l">>, <<".", "j", "s">>, <<".", "c", "s", "s">>,
      <<".", "j", "s", "o", "n">>, <<".", "m", "d">>, <<".", "t", "s">>,
      <<".", "s", "v", "e", "l", "t", "e">> }

IsRelevant_anySuffix(src_path) == PathSuffix(src_path) # <<>>

IsRelevant(src_path) == Lower(PathSuffix(src_path)) \in relevant_extensions

IsDirectoryEvent_never(event) == FALSE

IsDirectoryEvent(event) == event.is_directory

DebounceElapsed_ge(current_time, last) == current_time - last >= debounce_delay

DebounceElapsed(current_time, last) == current_time - last > debounce_delay

----------------------------------------------------------------------------
(* The events the file system delivers *)

P_html == <<"s", "/", "a", ".", "h", "t", "m", "l">>
P_JS == <<"A", ".", "J", "S">>
P_png == <<"a", ".", "p", "n", "g">>
P_noext == <<"v", ".", "j", "s", "/", "R">>
P_hidden == <<".", "j", "s", "o", "n">>
P_dir == <<"s", "/", "v", ".", "j", "s">>

FileModified(path) ==
    [src_path |-> path, is_directory |-> FALSE, event_type |-> "modified"]

Events ==
    { FileModified(P_html),
      FileModified(P_JS),
      FileModified(P_png),
      FileModified(P_noext),
      FileModified(P_hidden),
      [src_path |-> P_dir, is_directory |-> TRUE, event_type |-> "modified"],
      [src_path |-> P_html, is_directory |-> FALSE, event_type |-> "created"],
      [src_path |-> P_html, is_directory |-> FALSE, event_type |-> "deleted"],
      [src_path |-> P_html, is_directory |-> FALSE, event_type |-> "moved"] }

\* the events of the whole-program specification
ProgramEvents == { FileModified(P_html), FileModified(P_png) }

----------------------------------------------------------------------------
(* Child processes *)

Alive(p) == p \in Pids /\ procs[p] \in {"running", "terminating"}

AliveSet == {p \in Pids : Alive(p)}

Unborn == {p \in Pids : procs[p] = "unborn"}

Born == Pids \ Unborn

NewPid == CHOOSE p \in Unborn : \A q \in Unborn : p <= q

StartMustStop_never(h) == FALSE

\* line 48: if self.server_process
StartMustStop(h) == h # None

HasProcess_always(h) == TRUE

\* line 61: if self.server_process
HasProcess(h) == h # None

OnSpawnError_raise(ret) == "crashed"

\* line 56-57: the exception of Popen is caught, start_server returns
OnSpawnError(ret) == ret

Terminated(status) == IF status = "running" THEN "terminating" ELSE status

Killed_not(status) == status

Killed(status) == IF status \in {"running", "terminating"} THEN "killed" ELSE status

Cleared_keep(h) == h

Cleared(h) == None

----------------------------------------------------------------------------
Init ==
    /\ now = BootTime
    /\ installed \in BOOLEAN
    /\ pc = [t \in Threads |-> IF t = MAIN THEN "start_server" ELSE "off"]
    /\ stack = [t \in Threads |-> IF t = MAIN THEN <<"start_file_watcher">> ELSE <<>>]
    /\ deadline = [t \in Threads |-> 0]
    /\ server_process = None
    /\ procs = [p \in Pids |-> "unborn"]
    /\ observer_stopped = FALSE
    /\ queue = <<>>
    /\ last_restart = 0
    /\ restarts = 0
    /\ trigOcc = 0
    /\ restart_pre = NoCall
    /\ handled = NoEvent
    /\ last_call = "start"
    /\ stopped_at = NoCall

InitAPI ==
    /\ now = BootTime
    /\ installed = FALSE
    /\ pc = [t \in Threads |-> IF t = MAIN THEN "api" ELSE "off"]
    /\ stack = [t \in Threads |-> <<>>]
    /\ deadline = [t \in Threads |-> 0]
    /\ server_process = None
    /\ procs = [p \in Pids |-> "unborn"]
    /\ observer_stopped = FALSE
    /\ queue = <<>>
    /\ last_restart = 0
    /\ restarts = 0
    /\ trigOcc = 0
    /\ restart_pre = NoCall
    /\ handled = NoEvent
    /\ last_call = "none"
    /\ stopped_at = NoCall

\* ReloadHandler alone, with a restart_callback that only counts its calls
InitHandler ==
    /\ now = BootTime
    /\ installed = FALSE
    /\ pc = [t \in Threads |-> IF t = MAIN THEN "idle" ELSE "dispatch"]
    /\ stack = [t \in Threads |-> <<>>]
    /\ deadline = [t \in Threads |-> 0]
    /\ server_process = None
    /\ procs = [p \in Pids |-> "unborn"]
    /\ observer_stopped = FALSE
    /\ queue = <<>>
    /\ last_restart = 0
    /\ restarts = 0
    /\ trigOcc = 0
    /\ restart_pre = NoCall
    /\ handled = NoEvent
    /\ last_call = "none"
    /\ stopped_at = NoCall

----------------------------------------------------------------------------
(* DevServer.start_server, stop_server, restart_server, run by thread t *)

Return(t) ==
    /\ pc' = [pc EXCEPT ![t] = Head(stack[t])]
    /\ stack' = [stack EXCEPT ![t] = Tail(stack[t])]

\* line 73-74: stop_server has returned to restart_server, or not
StoppedAt(next_pc) == IF next_pc = "restart_sleep" THEN now ELSE stopped_at

\* line 48-49: if self.server_process: self.stop_server()
StartCheck(t) ==
    /\ pc[t] = "start_server"
    /\ IF StartMustStop(server_process)
       THEN /\ pc' = [pc EXCEPT ![t] = "stop_server"]
            /\ stack' = [stack EXCEPT ![t] = <<"Popen">> \o stack[t]]
       ELSE /\ pc' = [pc EXCEPT ![t] = "Popen"]
            /\ stack' = stack
    /\ UNCHANGED <<now, installed, deadline, server_process, procs,
                   observer_stopped, queue, last_restart, restarts, trigOcc,
                   restart_pre, handled, stopped_at, last_call>>

\* line 52-55: subprocess.Popen succeeds
PopenOk(t) ==
    /\ pc[t] = "Popen"
    /\ Unborn # {}
    /\ procs' = [procs EXCEPT ![NewPid] = "running"]
    /\ server_process' = NewPid
    /\ Return(t)
    /\ stopped_at' = NoCall
    /\ restart_pre' = NoCall
    /\ UNCHANGED <<now, installed, deadline, observer_stopped, queue,
                   last_restart, restarts, trigOcc, handled, last_call>>

\* line 56-57: subprocess.Popen raises, the exception is printed
PopenFail(t) ==
    /\ pc[t] = "Popen"
    /\ pc' = [pc EXCEPT ![t] = OnSpawnError(Head(stack[t]))]
    /\ stack' = [stack EXCEPT ![t] = Tail(stack[t])]
    /\ stopped_at' = NoCall
    /\ restart_pre' = NoCall
    /\ UNCHANGED <<now, installed, deadline, server_process, procs,
                   observer_stopped, queue, last_restart, restarts, trigOcc, handled, last_call>>

\* line 61-64: terminate() and the start of wait(timeout=5), or nothing
StopBegin(t) ==
    /\ pc[t] = "stop_server"
    /\ IF HasProcess(server_process)
       THEN /\ procs' = [p \in Pids |-> IF p = server_process
                                        THEN Terminated(procs[p]) ELSE procs[p]]
            /\ pc' = [pc EXCEPT ![t] = "stop_wait"]
            /\ deadline' = [deadline EXCEPT ![t] = now + StopTimeout]
            /\ stack' = stack
       ELSE /\ Return(t)
            /\ UNCHANGED <<procs, deadline>>
    /\ stopped_at' = StoppedAt(pc'[t])
    /\ UNCHANGED <<now, installed, server_process, observer_stopped, queue,
                   last_restart, restarts, trigOcc, restart_pre, handled, last_call>>

\* line 64, 67-68: wait() returns because the child is gone
StopWaitExited(t) ==
    /\ pc[t] = "stop_wait"
    /\ ~Alive(server_process)
    /\ server_process' = Cleared(server_process)
    /\ deadline' = [deadline EXCEPT ![t] = 0]
    /\ Return(t)
    /\ stopped_at' = StoppedAt(pc'[t])
    /\ UNCHANGED <<now, installed, procs, observer_stopped, queue,
                   last_restart, restarts, trigOcc, restart_pre, handled, last_call>>

\* line 65-68: TimeoutExpired, kill()
StopWaitTimeout(t) ==
    /\ pc[t] = "stop_wait"
    /\ Alive(server_process)
    /\ now >= deadline[t]
    /\ procs' = [p \in Pids |-> IF p = server_process
                                THEN Killed(procs[p]) ELSE procs[p]]
    /\ server_process' = Cleared(server_process)
    /\ deadline' = [deadline EXCEPT ![t] = 0]
    /\ Return(t)
    /\ stopped_at' = StoppedAt(pc'[t])
    /\ UNCHANGED <<now, installed, observer_stopped, queue,
                   last_restart, restarts, trigOcc, restart_pre, handled, last_call>>

\* line 70-73: entry of restart_server, up to the call of stop_server
EnterRestart(t, cont) ==
    /\ restart_pre' = server_process
    /\ restarts' = restarts + 1
    /\ last_call' = "restart"
    /\ pc' = [pc EXCEPT ![t] = "stop_server"]
    /\ stack' = [stack EXCEPT ![t] = <<"restart_sleep", cont>>]

WakeTime_nopause(start) == start

\* line 74: time.sleep(0.5)
WakeTime(start) == start + RestartPause

\* line 74: time.sleep(0.5) begins
RestartSleep(t) ==
    /\ pc[t] = "restart_sleep"
    /\ deadline' = [deadline EXCEPT ![t] = WakeTime(now)]
    /\ pc' = [pc EXCEPT ![t] = "sleeping"]
    /\ UNCHANGED <<now, installed, stack, server_process, procs,
                   observer_stopped, queue, last_restart, restarts, trigOcc,
                   restart_pre, handled, stopped_at, last_call>>

\* line 74-75: the sleep ends, start_server is called
Wake(t) ==
    /\ pc[t] = "sleeping"
    /\ now >= deadline[t]
    /\ deadline' = [deadline EXCEPT ![t] = 0]
    /\ pc' = [pc EXCEPT ![t] = "start_server"]
    /\ UNCHANGED <<now, installed, stack, server_process, procs,
                   observer_stopped, queue, last_restart, restarts, trigOcc,
                   restart_pre, handled, stopped_at, last_call>>

----------------------------------------------------------------------------
(* The child: it exits once told to terminate, or on its own, or never *)

ChildExit(p) ==
    /\ Alive(p)
    /\ pc[MAIN] # "exited"
    /\ procs' = [procs EXCEPT ![p] = "exited"]
    /\ UNCHANGED <<now, installed, pc, stack, deadline, server_process,
                   observer_stopped, queue, last_restart, restarts, trigOcc,
                   restart_pre, handled, stopped_at, last_call>>

----------------------------------------------------------------------------
(* ReloadHandler and the observer thread *)

\* line 77-89 (and 20-23): the observer thread starts
StartFileWatcher ==
    /\ pc[MAIN] = "start_file_watcher"
    /\ pc' = [pc EXCEPT ![MAIN] = "idle", ![WATCHER] = "dispatch"]
    /\ last_restart' = 0
    /\ UNCHANGED <<now, installed, stack, deadline, server_process, procs,
                   observer_stopped, queue, restarts, trigOcc, restart_pre, handled, stopped_at, last_call>>

ObserverAlive == pc[WATCHER] \notin {"off", "done", "killed"}

\* a file or directory under a watch root is modified, created, deleted or
\* moved, and the observer queues the event
Modify(e) ==
    /\ ObserverAlive
    /\ ~observer_stopped
    /\ Len(queue) < MaxQueue
    /\ queue' = Append(queue, [event |-> e, occ |-> now])
    /\ UNCHANGED <<now, installed, pc, stack, deadline, server_process, procs,
                   observer_stopped, last_restart, restarts, trigOcc,
                   restart_pre, handled, stopped_at, last_call>>

Overridden_any(event_type) == TRUE

\* line 19-25: ReloadHandler overrides on_modified and no other on_* method
Overridden(event_type) == event_type = "modified"

\* line 25-35: the decision of on_modified
Accepts(event, current_time, last) ==
    /\ Overridden(event.event_type)
    /\ ~IsDirectoryEvent(event)
    /\ IsRelevant(event.src_path)
    /\ DebounceElapsed(current_time, last)

ObserverReady_always(watcher_pc) == TRUE

\* line 38: restart_callback is called on the observer thread itself, which
\* takes the next event only after on_modified has returned
ObserverReady(watcher_pc) == watcher_pc = "dispatch"

Stamp_keep(current_time, last) == last

\* line 37: self.last_restart = current_time
Stamp(current_time, last) == current_time

\* line 25-38: on_modified, run by the observer thread for the next event
OnModified(restart_callback, no_callback) ==
    /\ ObserverReady(pc[WATCHER])
    /\ ~observer_stopped
    /\ queue # <<>>
    /\ queue' = Tail(queue)
    /\ handled' = Head(queue).event
    /\ IF Accepts(Head(queue).event, now, last_restart)
       THEN /\ last_restart' = Stamp(now, last_restart)
            /\ trigOcc' = Head(queue).occ
            /\ restart_callback
       ELSE /\ UNCHANGED <<last_restart, trigOcc>>
            /\ no_callback
    /\ UNCHANGED <<now, installed, deadline, server_process, procs,
                   observer_stopped, stopped_at>>

\* line 79: the callback is DevServer.restart_server
Dispatch ==
    OnModified(EnterRestart(WATCHER, "dispatch"),
               UNCHANGED <<restarts, restart_pre, last_call, pc, stack>>)

\* the callback only counts its calls
DispatchCounting ==
    OnModified(/\ restarts' = restarts + 1
               /\ UNCHANGED <<restart_pre, last_call, pc, stack>>,
               UNCHANGED <<restarts, restart_pre, last_call, pc, stack>>)

\* the observer thread ends once stop() was called and its callback returned
WatcherStop ==
    /\ pc[WATCHER] = "dispatch"
    /\ observer_stopped
    /\ pc' = [pc EXCEPT ![WATCHER] = "done"]
    /\ UNCHANGED <<now, installed, stack, deadline, server_process, procs,
                   observer_stopped, queue, last_restart, restarts, trigOcc,
                   restart_pre, handled, stopped_at, last_call>>

----------------------------------------------------------------------------
(* DevServer.run and SIGINT *)

\* line 121-124, 128: SIGINT with signal_handler installed. sys.exit(0)
\* raises SystemExit in the main thread, `except KeyboardInterrupt` does not
\* catch it, run() is left without its cleanup and the interpreter exits,
\* ending the observer's daemon thread.
SigintExit ==
    /\ pc[MAIN] = "idle"
    /\ installed
    /\ pc' = [pc EXCEPT ![MAIN] = "exited", ![WATCHER] = "killed"]
    /\ UNCHANGED <<now, installed, stack, deadline, server_process, procs,
                   observer_stopped, queue, last_restart, restarts, trigOcc,
                   restart_pre, handled, stopped_at, last_call>>

\* line 111-116: SIGINT with the default handler: KeyboardInterrupt is caught,
\* observer.stop() is called
SigintInterrupt ==
    /\ pc[MAIN] = "idle"
    /\ ~installed
    /\ observer_stopped' = TRUE
    /\ pc' = [pc EXCEPT ![MAIN] = "observer_join"]
    /\ UNCHANGED <<now, installed, stack, deadline, server_process, procs,
                   queue, last_restart, restarts, trigOcc, restart_pre, handled, stopped_at, last_call>>

Joined_nowait(watcher_pc) == TRUE

\* line 117: observer.join() returns once the observer thread has ended
Joined(watcher_pc) == watcher_pc = "done"

\* line 117-118: observer.join() returns, stop_server is called
Join ==
    /\ pc[MAIN] = "observer_join"
    /\ Joined(pc[WATCHER])
    /\ pc' = [pc EXCEPT ![MAIN] = "stop_server"]
    /\ stack' = [stack EXCEPT ![MAIN] = <<"exit">>]
    /\ last_call' = "stop"
    /\ UNCHANGED <<now, installed, deadline, server_process, procs,
                   observer_stopped, queue, last_restart, restarts, trigOcc,
                   restart_pre, handled, stopped_at>>

\* line 119: run() returns and the program ends
Exit ==
    /\ pc[MAIN] = "exit"
    /\ pc' = [pc EXCEPT ![MAIN] = "exited"]
    /\ UNCHANGED <<now, installed, stack, deadline, server_process, procs,
                   observer_stopped, queue, last_restart, restarts, trigOcc,
                   restart_pre, handled, stopped_at, last_call>>

----------------------------------------------------------------------------
(* A client calling the supervisor's methods one after the other *)

ApiStart ==
    /\ pc[MAIN] = "api"
    /\ pc' = [pc EXCEPT ![MAIN] = "start_server"]
    /\ stack' = [stack EXCEPT ![MAIN] = <<"api">>]
    /\ last_call' = "start"
    /\ UNCHANGED <<now, installed, deadline, server_process, procs,
                   observer_stopped, queue, last_restart, restarts, trigOcc,
                   restart_pre, handled, stopped_at>>

ApiStop ==
    /\ pc[MAIN] = "api"
    /\ pc' = [pc EXCEPT ![MAIN] = "stop_server"]
    /\ stack' = [stack EXCEPT ![MAIN] = <<"api">>]
    /\ last_call' = "stop"
    /\ UNCHANGED <<now, installed, deadline, server_process, procs,
                   observer_stopped, queue, last_restart, restarts, trigOcc,
                   restart_pre, handled, stopped_at>>

ApiRestart ==
    /\ pc[MAIN] = "api"
    /\ EnterRestart(MAIN, "api")
    /\ UNCHANGED <<now, installed, deadline, server_process, procs,
                   observer_stopped, queue, last_restart, trigOcc, handled, stopped_at>>

------
(* Time *)

Blocked(t) ==
    CASE pc[t] = "stop_wait" -> Alive(server_process) /\ now < deadline[t]
      [] pc[t] = "sleeping" -> now < deadline[t]
      [] pc[t] = "dispatch" -> queue = <<>> /\ ~observer_stopped
      [] pc[t] = "observer_join" -> ~Joined(pc[WATCHER])
      [] pc[t] \in {"idle", "api", "off", "done", "killed"} -> TRUE
      [] OTHER -> FALSE

Tick ==
    /\ now < MaxTime
    /\ \A t \in Threads : Blocked(t)
    /\ now' = now + 1
    /\ handled' = NoEvent
    /\ UNCHANGED <<installed, pc, stack, deadline, server_process, procs,
                   observer_stopped, queue, last_restart, restarts, trigOcc,
                   restart_pre, last_call, stopped_at>>

----------------------------------------------------------------------------
Supervisor(t) ==
    \/ StartCheck(t)
    \/ PopenOk(t)
    \/ PopenFail(t)
    \/ StopBegin(t)
    \/ StopWaitExited(t)
    \/ StopWaitTimeout(t)
    \/ RestartSleep(t)
    \/ Wake(t)

Next ==
    \/ \E t \in Threads : Supervisor(t)
    \/ \E p \in Pids : ChildExit(p)
    \/ StartFileWatcher
    \/ \E e \in ProgramEvents : Modify(e)
    \/ Dispatch
    \/ WatcherStop
    \/ SigintExit
    \/ SigintInterrupt
    \/ Join
    \/ Exit
    \/ Tick

Spec == Init /\ [][Next]_vars

NextAPI ==
    \/ Supervisor(MAIN)
    \/ \E p \in Pids : ChildExit(p)
    \/ ApiStart
    \/ ApiStop
    \/ ApiRestart
    \/ Tick

SpecAPI == InitAPI /\ [][NextAPI]_vars

NextHandler ==
    \/ \E e \in Events : Modify(e)
    \/ DispatchCounting
    \/ Tick

SpecHandler == InitHandler /\ [][NextHandler]_vars

TypeOK ==
    /\ now \in BootTime..MaxTime
    /\ server_process \in {None} \cup Pids
    /\ Len(queue) <= MaxQueue

----------------------------------------------------------------------------
(* Properties *)

Dead(status) == status \in {"exited", "killed"}

\* on_modified runs for the event at the head of the queue
HandleStep == pc[WATCHER] = "dispatch" /\ queue # <<>> /\ queue' = Tail(queue)

AllowedFiles == {P_html, P_JS}
OtherFiles == {P_png, P_noext, P_hidden}

\* C1: when the program started from __main__ has exited after SIGINT, the
\* watcher has been stopped and its thread joined, and no child server
\* process is running any more.
C1_ShutdownStopsWatcherThenServer ==
    (installed /\ pc[MAIN] = "exited")
        => (observer_stopped /\ pc[WATCHER] = "done" /\ AliveSet = {})

\* C2: at most one child is alive in every state, and a child is spawned
\* only when every earlier child has exited or has been force-killed.
C2_AtMostOneChild ==
    /\ [](Cardinality(AliveSet) <= 1)
    /\ [][(\E p \in Pids : procs[p] = "unborn" /\ procs'[p] = "running")
            => \A q \in Born : Dead(procs[q])]_vars

C2_Witness ==
    /\ pc[MAIN] = "api"
    /\ last_call = "start"
    /\ restarts = 0
    /\ \E p \in Pids : procs[p] = "killed"
    /\ server_process # None
    /\ procs[server_process] = "running"

\* C3 as stated: an allowed file event handled at t restarts exactly once
\* and sets last_restart to t when t - last_restart >= 1 s, and is dropped
\* when t - last_restart < 1 s.
C3_Original ==
    [][(HandleStep /\ ~Head(queue).event.is_directory
           /\ Head(queue).event.event_type = "modified"
           /\ Head(queue).event.src_path \in AllowedFiles)
         => IF now - last_restart >= debounce_delay
            THEN restarts' = restarts + 1 /\ last_restart' = now
            ELSE restarts' = restarts /\ last_restart' = last_restart]_vars

\* C3 amended: an allowed file event handled at t restarts exactly once and
\* sets last_restart to t when t - last_restart > 1 s, and is dropped when
\* t - last_restart <= 1 s; an event exactly 1 s after is dropped.
C3_DebounceStrict ==
    [][(HandleStep /\ ~Head(queue).event.is_directory
           /\ Head(queue).event.event_type = "modified"
           /\ Head(queue).event.src_path \in AllowedFiles)
         => IF now - last_restart > debounce_delay
            THEN restarts' = restarts + 1 /\ last_restart' = now
            ELSE restarts' = restarts /\ last_restart' = last_restart]_vars

C3_Witness ==
    /\ restarts >= 2
    /\ last_restart > BootTime
    /\ handled.src_path \in AllowedFiles
    /\ handled.event_type = "modified"
    /\ ~handled.is_directory
    /\ now - last_restart = debounce_delay

\* C4: no two restarts are triggered by modifications that occurred within
\* one debounce window (1 s) of each other.
C4_OneRestartPerWindow ==
    [][(HandleStep /\ restarts >= 1 /\ restarts' = restarts + 1)
         => Head(queue).occ - trigOcc >= debounce_delay]_vars

\* a restart returns in this step
RestartReturn(t) ==
    pc[t] = "Popen" /\ restart_pre # NoCall /\ pc'[t] \notin {"Popen", "killed"}

\* C5 as stated: restart always ends with a handle set that differs from
\* the handle held before the call.
C5_Original ==
    [][\A t \in Threads : RestartReturn(t)
         => server_process' # None /\ server_process' # restart_pre]_vars

\* C5 amended: restart ends with a handle created by this restart, different
\* from the one held before, when the spawn succeeds, and with no handle
\* when the spawn fails.
C5_RestartFreshOrStopped ==
    [][\A t \in Threads : RestartReturn(t)
         => IF procs' # procs
            THEN /\ server_process' # None
                 /\ server_process' # restart_pre
                 /\ procs[server_process'] = "unborn"
                 /\ procs'[server_process'] = "running"
            ELSE server_process' = None]_vars

C5_Witness ==
    /\ pc[MAIN] = "api"
    /\ last_call = "restart"
    /\ server_process # None
    /\ procs[server_process] = "running"
    /\ \E p \in Pids : p # server_process /\ procs[p] = "killed"

\* the spawn fails in this step
SpawnFailStep(t) ==
    pc[t] = "Popen" /\ pc'[t] \notin {"Popen", "killed"} /\ procs' = procs

\* C6: a failed spawn returns to the caller with no handle, spawns nothing
\* and leaves the watcher running.
C6_SpawnFailureContained ==
    [][\A t \in Threads : SpawnFailStep(t)
         => /\ server_process' = None
            /\ pc'[t] = Head(stack[t])
            /\ stack'[t] = Tail(stack[t])
            /\ pc'[WATCHER] \notin {"done", "killed"}
            /\ pc'[MAIN] \notin {"exit", "exited"}]_vars

C6_Witness ==
    /\ pc[WATCHER] = "dispatch"
    /\ ~observer_stopped
    /\ restarts >= 1
    /\ Cardinality(Born) < 1 + restarts
    /\ server_process # None
    /\ procs[server_process] = "running"

\* C7: stop with a handle first signals the child, then waits no longer than
\* the stop timeout, kills the child only when the timeout has elapsed, and
\* returns to its caller with the handle cleared and the child dead.
C7_StopBoundedAndFinal ==
    /\ [](\A t \in Threads : pc[t] = "stop_wait" => now <= deadline[t])
    /\ [][\A t \in Threads :
            /\ (pc[t] = "stop_server" /\ pc'[t] \notin {"stop_server", "killed"}
                  /\ server_process # None)
                 => /\ pc'[t] = "stop_wait"
                    /\ deadline'[t] = now + StopTimeout
                    /\ procs'[server_process] # "running"
            /\ (pc[t] = "stop_wait" /\ pc'[t] \notin {"stop_wait", "killed"})
                 => /\ server_process' = None
                    /\ Dead(procs'[server_process])
                    /\ pc'[t] = Head(stack[t])
                    /\ (procs'[server_process] # procs[server_process]
                          => now = deadline[t])]_vars

C7_Witness ==
    /\ pc[MAIN] = "api"
    /\ last_call = "stop"
    /\ server_process = None
    /\ \E p \in Pids : procs[p] = "killed"
    /\ AliveSet = {}

\* C8: stop without a handle returns at once and changes nothing, and every
\* stop returns without a handle, so that a second stop changes nothing.
C8_StopNoOpWhenStopped ==
    [][\A t \in Threads :
         /\ (pc[t] = "stop_server" /\ pc'[t] \notin {"stop_server", "killed"}
               /\ server_process = None)
              => /\ pc'[t] = Head(stack[t])
                 /\ stack'[t] = Tail(stack[t])
                 /\ UNCHANGED <<server_process, procs, deadline, now,
                                last_restart, restarts, queue>>
         /\ (pc[t] \in {"stop_server", "stop_wait"}
               /\ pc'[t] \notin {"stop_server", "stop_wait", "killed"})
              => server_process' = None]_vars

C8_Witness ==
    /\ pc[MAIN] = "api"
    /\ last_call = "stop"
    /\ server_process = None
    /\ Unborn = Pids

\* C9: an event for a file whose extension is not in the allow-set never
\* calls the restart callback, however long ago the last restart was.
C9_OtherExtensionsIgnored ==
    [][(HandleStep /\ Head(queue).event.src_path \in OtherFiles)
         => restarts' = restarts /\ pc' = pc]_vars

C9_Witness ==
    /\ handled.src_path = P_png
    /\ restarts >= 1
    /\ now - last_restart > debounce_delay

\* C10: an event for a directory never calls the restart callback, whatever
\* the name of the directory and however long ago the last restart was.
C10_DirectoriesIgnored ==
    [][(HandleStep /\ Head(queue).event.is_directory)
         => restarts' = restarts /\ pc' = pc]_vars

C10_Witness ==
    /\ handled.is_directory
    /\ handled.src_path = P_dir
    /\ restarts >= 1
    /\ now - last_restart > debounce_delay


\* thread t is inside start_server, stop_server or restart_server
InSupervisor(t) ==
    pc[t] \in {"start_server", "Popen", "stop_server", "stop_wait",
               "restart_sleep", "sleeping"}

\* C11 as stated: the handle is written only by the watcher thread's
\* restart callback, or by the main thread after the watcher has been
\* stopped and joined.
C11_Original ==
    [][server_process' # server_process
         => \/ InSupervisor(WATCHER)
            \/ observer_stopped /\ pc[WATCHER] = "done"]_vars

\* C11 amended: the main thread is inside the supervisor's methods only
\* before the watcher thread is started (the initial start_server of run)
\* or after it has been stopped and joined, so the two threads are never
\* inside them at the same time.
C11_HandleNeverShared ==
    /\ ~(InSupervisor(MAIN) /\ InSupervisor(WATCHER))
    /\ InSupervisor(MAIN)
         => \/ pc[WATCHER] = "off"
            \/ observer_stopped /\ pc[WATCHER] = "done"
    /\ InSupervisor(WATCHER) => pc[MAIN] \in {"idle", "observer_join"}

C11_Witness ==
    /\ pc[MAIN] = "stop_wait"
    /\ pc[WATCHER] = "done"
    /\ observer_stopped
    /\ restarts >= 1
    /\ Cardinality(Born) >= 2

\* the observer takes the event at the head of the queue
EventTaken == queue # <<>> /\ queue' = Tail(queue)

\* C12: no event is taken from the queue and no restart is started while a
\* restart (stop, bounded wait, pause or spawn) is in progress.
C12_RestartsSerialized ==
    [][/\ EventTaken => (restart_pre = NoCall /\ ~InSupervisor(WATCHER))
       /\ restarts' = restarts + 1
            => (restart_pre = NoCall /\ ~InSupervisor(WATCHER))]_vars

C12_Witness ==
    /\ restarts >= 2
    /\ restart_pre # NoCall
    /\ InSupervisor(WATCHER)
    /\ queue # <<>>
    /\ Head(queue).occ < now

\* the start phase of a restart ends in this step, with or without a child
RestartSpawnStep(t) ==
    pc[t] = "Popen" /\ restart_pre # NoCall /\ pc'[t] \notin {"Popen", "killed"}

\* C13: in a restart the pause begins when stop_server has returned with the
\* handle cleared and the old child dead, it lasts 0.5 s, and the spawn is
\* attempted only after it, also when the restart began without a handle.
C13_StopPauseSpawn ==
    /\ [](\A t \in Threads :
            (restart_pre # NoCall
               /\ pc[t] \in {"restart_sleep", "sleeping", "start_server", "Popen"})
              => /\ stopped_at # NoCall
                 /\ server_process = None
                 /\ ~Alive(restart_pre)
                 /\ pc[t] = "sleeping" => deadline[t] = stopped_at + RestartPause
                 /\ pc[t] \in {"start_server", "Popen"}
                      => now >= stopped_at + RestartPause)
    /\ [][\A t \in Threads : RestartSpawnStep(t)
            => /\ stopped_at # NoCall
               /\ now >= stopped_at + RestartPause
               /\ server_process = None]_vars

C13_Witness ==
    /\ pc[MAIN] = "api"
    /\ last_call = "restart"
    /\ restarts = 1
    /\ Born = {1}
    /\ server_process = 1
    /\ procs[1] = "running"
    /\ now = BootTime + RestartPause

\* C14: while the program runs, every child that is alive is the one the
\* handle refers to; with no handle, no child is alive.
C14_NoOrphan ==
    pc[MAIN] # "exited"
      => /\ server_process = None => AliveSet = {}
         /\ AliveSet \subseteq {server_process}

C14_Witness ==
    /\ pc[MAIN] = "api"
    /\ last_call = "restart"
    /\ server_process = None
    /\ \E p \in Pids : procs[p] = "killed"
    /\ \E p \in Pids : procs[p] = "exited"

\* C16: an event of another kind than 'modified' never calls the restart
\* callback and never changes last_restart, also for an allowed file long
\* after the last restart.
C16_OnlyModifiedEvents ==
    [][(HandleStep /\ Head(queue).event.event_type # "modified")
         => /\ restarts' = restarts
            /\ last_restart' = last_restart
            /\ pc' = pc]_vars

C16_Witness ==
    /\ handled.event_type = "created"
    /\ handled.src_path = P_html
    /\ ~handled.is_directory
    /\ restarts >= 1
    /\ now - last_restart > debounce_delay

\* the event being handled is a directory event, or its file has no allowed
\* extension, or it falls inside the debounce window
RejectedEvent ==
    LET event == Head(queue).event
    IN  \/ event.is_directory
        \/ event.src_path \notin AllowedFiles
        \/ now - last_restart <= debounce_delay

====
